---- MODULE Spec2Model ----
(***************************************************************************)
(* Trab01React: a user-management application.  The backend is an Express  *)
(* router over one MySQL table `users` (Drizzle ORM), guarded by a Zod     *)
(* validation middleware; the frontend is a React client whose user form   *)
(* validates with its own Zod schema before calling the API.               *)
(*                                                                         *)
(* A text value (name, email, avatar) is a sequence of tokens; the tokens  *)
(* of a name are its characters.  Role and status are plain strings.       *)
(* A request body is a function from the keys it supplies to their values. *)
(***************************************************************************)
EXTENDS Integers, Sequences, FiniteSets, TLC

\* ------------------------------------------------------------------ bounds
\* requests admitted in one behaviour of the concurrent workload
MaxReqs == 3
\* requests admitted in one behaviour of the sequential workload
MaxSeqReqs == 2
\* requests admitted in one behaviour of the clock workload
MaxClockReqs == 3
\* ticks of the database clock (one tick = one second, the column precision)
MaxTime == 1
\* largest offset, in ticks, between the application clock and the database clock
MaxSkew == 1

\* requests in one behaviour of the workload with failing statements
MaxFailReqs == 3

\* submissions of the user form in one behaviour of the client workload
MaxSubmits == 2

\* users in the list the client fetches
MaxListUsers == 6

\* confirmed clicks on the delete buttons of one mounted page
MaxDeletes == 2

\* request k is the k-th one received
Slots == 1..MaxReqs

\* ------------------------------------------------------------ text values
Range(s) == {s[i] : i \in 1..Len(s)}

Positions(s, c) == {i \in 1..Len(s) : s[i] = c}

\* SQL NULL / JSON null: a value that is no text a client can send
Null == <<"<NULL>">>

EmptyText == << >>

NameA == <<"A">>
NameAl == <<"A", "l">>
NameABC == <<"A", " ", "B", " ", "C">>

EmailA == <<"a", "@", "x", ".", "com">>
EmailB == <<"b", "@", "x", ".", "com">>
EmailBad == <<"a", ".", "x">>

Url1 == <<"https", "://", "e.com", "/a.png">>
Url2 == <<"http", "://", "e.com", "/b.png">>
TextBad == <<"pic">>

\* z.string().email(): one "@" with a local part before it and a dotted domain after
IsEmail(s) ==
    /\ Cardinality(Positions(s, "@")) = 1
    /\ " " \notin Range(s)
    /\ LET at == CHOOSE i \in Positions(s, "@") : TRUE
       IN  /\ at > 1
           /\ \E d \in Positions(s, ".") : d > at + 1 /\ d < Len(s)

\* z.string().url(): the text parses as a URL (a scheme, "://", a host)
IsUrl(s) ==
    /\ Len(s) >= 3
    /\ s[1] \in {"http", "https"}
    /\ s[2] = "://"
    /\ s[3] # " "

\* ---------------------------------------------------------------- schemas
Fields == {"name", "email", "avatar", "role", "status"}

Required == {"name", "email"}

\* .default('user') / .default('active')
Defaults == [role |-> "user", status |-> "active"]

NoFields == [f \in {} |-> EmptyText]

\* backend userSchema, one field
FieldOk(f, v) ==
    CASE f = "name" -> Len(v) >= 2
      [] f = "email" -> IsEmail(v)
      [] f = "avatar" -> IsUrl(v)
      [] f = "role" -> v \in {"admin", "user"}
      [] f = "status" -> v \in {"active", "inactive"}

FieldMessage(f) ==
    CASE f = "name" -> "Name must be at least 2 characters long"
      [] f = "email" -> "Invalid email address"
      [] f = "avatar" -> "Avatar must be a valid URL"
      [] f = "role" -> "Invalid enum value"
      [] f = "status" -> "Invalid enum value"

\* the issues of a ZodError: a required key that is missing, a supplied value
\* that fails its field's check.  A default or an optional makes a key optional;
\* .partial() makes every key optional.
Issues(body, partial) ==
    {[path |-> f, message |-> "Required"] :
        f \in IF partial THEN {} ELSE Required \ DOMAIN body}
    \cup
    {[path |-> f, message |-> FieldMessage(f)] :
        f \in {g \in DOMAIN body \cap Fields : ~FieldOk(g, body[g])}}

\* the parsed value: unknown keys are stripped; the full schema fills the
\* defaults of role and status, the partial schema (ZodOptional around
\* ZodDefault) leaves an absent key absent
Parsed_Passthrough(body, partial) ==
    [f \in DOMAIN body \cup (IF partial THEN {} ELSE DOMAIN Defaults) |->
        IF f \in DOMAIN body THEN body[f] ELSE Defaults[f]]

Parsed(body, partial) ==
    [f \in (DOMAIN body \cap Fields) \cup (IF partial THEN {} ELSE DOMAIN Defaults) |->
        IF f \in DOMAIN body THEN body[f] ELSE Defaults[f]]

userSchema_NoDefaults(body) ==
    [issues |-> Issues(body, FALSE), data |-> Parsed(body, TRUE)]

userSchema(body) == [issues |-> Issues(body, FALSE), data |-> Parsed(body, FALSE)]

userUpdateSchema_InjectsDefaults(body) ==
    [issues |-> Issues(body, TRUE), data |-> Parsed(body, FALSE)]

userUpdateSchema_Unchecked(body) == [issues |-> {}, data |-> Parsed(body, TRUE)]

userUpdateSchema(body) == [issues |-> Issues(body, TRUE), data |-> Parsed(body, TRUE)]

\* --------------------------------------------------------------- responses
NoBody == [none |-> TRUE]

ValidationError(issues) == [message |-> "Validation error", errors |-> issues]

\* validateRequest(schema): next() with req.body replaced by the parsed data,
\* or 400 with the issues as {path, message}
validateRequest_CallsNext(result) ==
    [next |-> TRUE, body |-> result.data, status |-> 0, rbody |-> NoBody]

validateRequest(result) ==
    IF result.issues = {}
    THEN [next |-> TRUE, body |-> result.data, status |-> 0, rbody |-> NoBody]
    ELSE [next |-> FALSE, body |-> NoFields, status |-> 400,
          rbody |-> ValidationError(result.issues)]

\* ------------------------------------------------------------------- state
VARIABLES
    users,      \* the rows of table `users`
    autoInc,    \* the table's AUTO_INCREMENT counter
    now,        \* the database clock, in ticks
    skew,       \* application clock minus database clock, fixed per deployment
    req,        \* per request, its content, its handler's position, its response
    lastDone,   \* the request whose response was sent last (0: none)
    gone,       \* ids for which a DELETE has been answered 204
    touched,    \* emails an UPDATE or a DELETE took from a row or gave to a row
    form,       \* the client's UserForm component
    list,       \* the client's UserList component
    detail      \* the client's UserDetail component

vars == <<users, autoInc, now, skew, req, lastDone, gone, touched, form, list, detail>>

\* JavaScript NaN, the result of Number() on a segment that is no numeric
\* literal: an integer no segment parses to
NaN == 0 - 2^30

\* Number(req.params.id): a decimal literal, a signed one, a hexadecimal one;
\* anything else is NaN
Number(param) ==
    IF \E i \in 0..9 : ToString(i) = param
    THEN CHOOSE i \in 0..9 : ToString(i) = param
    ELSE IF \E i \in 0..9 : "-" \o ToString(i) = param
    THEN 0 - (CHOOSE i \in 0..9 : "-" \o ToString(i) = param)
    ELSE IF \E i \in 0..9 : "0x" \o ToString(i) = param
    THEN CHOOSE i \in 0..9 : "0x" \o ToString(i) = param
    ELSE NaN

isNaN(n) == n = NaN

\* new Date() on the application server
AppClock == now + skew

Idle ==
    [pc |-> "idle", kind |-> "NONE", param |-> "", raw |-> NoFields, body |-> NoFields,
     status |-> 0, rbody |-> NoBody, calls |-> 0,
     err |-> "", wrote |-> FALSE,
     prev |-> 0, before |-> {}, late |-> FALSE, fresh |-> FALSE]

\* res.status(status).json(rbody): the handler is over
Respond(r, status, rbody) ==
    [r EXCEPT !.pc = "done", !.status = status, !.rbody = rbody]

InvalidId == [message |-> "Formato de ID invalido"]
NotFound == [message |-> "Usuario nao encontrado"]
Conflict == [message |-> "Email ja existe"]
InternalError == [message |-> "Erro interno do servidor"]

\* the error codes a failing statement may carry besides ER_DUP_ENTRY
StorageErrors == {"ECONNRESET", "ER_LOCK_DEADLOCK"}

\* the catch block of router.post and router.put
CatchWrite_Leaky(code) == [status |-> 500, rbody |-> [message |-> code]]

CatchWrite(code) ==
    IF code = "ER_DUP_ENTRY"
    THEN [status |-> 409, rbody |-> Conflict]
    ELSE [status |-> 500, rbody |-> InternalError]

\* the catch block of the two router.get and of router.delete
CatchRead(code) == [status |-> 500, rbody |-> InternalError]

\* the handler's statement threw `code`: what its catch block answers
Caught(r, code) ==
    LET c == IF r.kind \in {"POST", "PUT"} THEN CatchWrite(code) ELSE CatchRead(code)
    IN  Respond([r EXCEPT !.calls = @ + 1, !.err = code], c.status, c.rbody)

\* db.select().from(users).where(eq(users.id, id))
SelectById(id) == {u \in users : u.id = id}

\* existingUser.length === 0: the existence check of update and delete
Missing_Never(existingUser) == FALSE

Missing(existingUser) == existingUser = {}

\* the UNIQUE(email) constraint, for a statement that leaves row `self` as it is
EmailTaken_NoConstraint(email, self) == FALSE

EmailTaken(email, self) == \E u \in users : u.email = email /\ u.id # self

\* the row INSERT INTO users stores for the parsed body d: a column the body
\* does not name takes its column default; created_at and updated_at default
\* to now() of the database
InsertedRow_ColumnDefaults(id, d) ==
    [id |-> id, name |-> d.name, email |-> d.email,
     avatar |-> IF "avatar" \in DOMAIN d THEN d.avatar ELSE Null,
     role |-> "user", status |-> "active",
     createdAt |-> now, updatedAt |-> now]

InsertedRow(id, d) ==
    [id |-> IF "id" \in DOMAIN d THEN d.id ELSE id,
     name |-> d.name, email |-> d.email,
     avatar |-> IF "avatar" \in DOMAIN d THEN d.avatar ELSE Null,
     role |-> IF "role" \in DOMAIN d THEN d.role ELSE "user",
     status |-> IF "status" \in DOMAIN d THEN d.status ELSE "active",
     createdAt |-> IF "createdAt" \in DOMAIN d THEN d.createdAt ELSE now,
     updatedAt |-> IF "updatedAt" \in DOMAIN d THEN d.updatedAt ELSE now]

\* UPDATE users SET {...req.body, updatedAt: new Date()}: the columns the body
\* names, and updated_at from the application clock
UpdatedRow_KeepsUpdatedAt(u, d) ==
    [k \in DOMAIN u |-> IF k \in DOMAIN d THEN d[k] ELSE u[k]]

UpdatedRow(u, d) ==
    [k \in DOMAIN u |->
        IF k = "updatedAt" THEN AppClock ELSE IF k \in DOMAIN d THEN d[k] ELSE u[k]]

\* ----------------------------------------------------------------- actions
\* The next request arrives.  POST and PUT pass through
\* validateRequest before their handler; the middleware reads no shared state,
\* so its outcome is settled on arrival.
Receive(s, kind, param, raw) ==
    /\ req[s].pc = "idle"
    /\ \A t \in Slots : t < s => req[t].pc # "idle"
    /\ LET v == CASE kind = "POST" -> validateRequest(userSchema(raw))
                 [] kind = "PUT" -> validateRequest(userUpdateSchema(raw))
                 [] OTHER -> [next |-> TRUE, body |-> NoFields, status |-> 0,
                              rbody |-> NoBody]
           r == [Idle EXCEPT !.kind = kind, !.param = param, !.raw = raw,
                             !.body = v.body, !.prev = lastDone,
                             !.before = {t \in Slots : req[t].pc = "done"},
                             !.late = Number(param) \in gone,
                             !.fresh = ~("email" \in DOMAIN raw
                                         /\ \E u \in users : u.email = raw.email)]
       IN  IF v.next
           THEN /\ req' = [req EXCEPT ![s] = [r EXCEPT !.pc = "handler"]]
                /\ UNCHANGED lastDone
           ELSE /\ req' = [req EXCEPT ![s] = Respond(r, v.status, v.rbody)]
                /\ lastDone' = s
    /\ UNCHANGED <<users, autoInc, now, skew, gone, touched, form, list, detail>>

\* router.get('/')
GetAll(s) ==
    /\ req[s].pc = "handler" /\ req[s].kind = "LIST"
    /\ req' = [req EXCEPT ![s] =
                 Respond([@ EXCEPT !.calls = @ + 1], 200, [list |-> users])]
    /\ lastDone' = s
    /\ UNCHANGED <<users, autoInc, now, skew, gone, touched, form, list, detail>>

\* router.get('/:id')
GetById(s) ==
    /\ req[s].pc = "handler" /\ req[s].kind = "GET"
    /\ LET id == Number(req[s].param)
           user == SelectById(id)
       IN  req' = [req EXCEPT ![s] =
                 IF isNaN(id) THEN Respond(@, 400, InvalidId)
                 ELSE IF user = {} THEN Respond([@ EXCEPT !.calls = @ + 1], 404, NotFound)
                 ELSE Respond([@ EXCEPT !.calls = @ + 1], 200, CHOOSE u \in user : TRUE)]
    /\ lastDone' = s
    /\ UNCHANGED <<users, autoInc, now, skew, gone, touched, form, list, detail>>

\* the key an INSERT gets from the AUTO_INCREMENT column: the counter, which
\* never goes back
GeneratedId_MaxPlusOne ==
    IF users = {} THEN 1
    ELSE 1 + CHOOSE n \in {u.id : u \in users} : \A u \in users : u.id <= n

GeneratedId == autoInc

\* what router.post('/') sends after the insert: $returningId() yields only
\* the generated key
Created(row) == [id |-> row.id]

\* router.post('/'): one INSERT.  InnoDB hands out the AUTO_INCREMENT value
\* before it checks the unique index, so a rejected insert uses one up too.
PostInsert(s) ==
    /\ req[s].pc = "handler" /\ req[s].kind = "POST"
    /\ LET d == req[s].body
           row == InsertedRow(GeneratedId, d)
       IN  /\ autoInc' = autoInc + 1
           /\ IF EmailTaken(d.email, 0)
              THEN /\ users' = users
                   /\ req' = [req EXCEPT ![s] = Caught(@, "ER_DUP_ENTRY")]
              ELSE /\ users' = users \cup {row}
                   /\ req' = [req EXCEPT ![s] =
                                Respond([@ EXCEPT !.calls = @ + 1, !.wrote = TRUE],
                                        201, Created(row))]
    /\ lastDone' = s
    /\ UNCHANGED <<now, skew, gone, touched, form, list, detail>>

\* router.put('/:id'), up to its first await: the id check and the existence check
PutSelect(s) ==
    /\ req[s].pc = "handler" /\ req[s].kind = "PUT"
    /\ LET id == Number(req[s].param)
       IN  IF isNaN(id)
           THEN /\ req' = [req EXCEPT ![s] = Respond(@, 400, InvalidId)]
                /\ lastDone' = s
           ELSE IF Missing(SelectById(id))
           THEN /\ req' = [req EXCEPT ![s] =
                             Respond([@ EXCEPT !.calls = @ + 1], 404, NotFound)]
                /\ lastDone' = s
           ELSE /\ req' = [req EXCEPT ![s].pc = "update", ![s].calls = @ + 1]
                /\ UNCHANGED lastDone
    /\ UNCHANGED <<users, autoInc, now, skew, gone, touched, form, list, detail>>

\* router.put('/:id'): the UPDATE.  It changes the row with that id if there
\* still is one; a duplicate email makes it fail with ER_DUP_ENTRY.
PutUpdate(s) ==
    /\ req[s].pc = "update"
    /\ LET id == Number(req[s].param)
           d == req[s].body
           found == SelectById(id)
       IN  IF found = {}
           THEN /\ req' = [req EXCEPT ![s].pc = "reread", ![s].calls = @ + 1]
                /\ UNCHANGED <<users, lastDone, touched>>
           ELSE LET u == CHOOSE x \in found : TRUE
                IN  IF "email" \in DOMAIN d /\ EmailTaken(d.email, id)
                    THEN /\ req' = [req EXCEPT ![s] = Caught(@, "ER_DUP_ENTRY")]
                         /\ lastDone' = s
                         /\ UNCHANGED <<users, touched>>
                    ELSE /\ users' = (users \ {u}) \cup {UpdatedRow(u, d)}
                         /\ touched' = IF UpdatedRow(u, d).email # u.email
                                       THEN touched \cup {u.email, UpdatedRow(u, d).email}
                                       ELSE touched
                         /\ req' = [req EXCEPT ![s].pc = "reread", ![s].calls = @ + 1,
                                                ![s].wrote = UpdatedRow(u, d) # u]
                         /\ UNCHANGED lastDone
    /\ UNCHANGED <<autoInc, now, skew, gone, form, list, detail>>

\* router.put('/:id'): the final select; updatedUser[0] is undefined when the
\* row is gone, and res.json(undefined) sends an empty body
PutReread(s) ==
    /\ req[s].pc = "reread"
    /\ LET updatedUser == SelectById(Number(req[s].param))
       IN  req' = [req EXCEPT ![s] =
                 Respond([@ EXCEPT !.calls = @ + 1], 200,
                         IF updatedUser = {} THEN NoBody
                         ELSE CHOOSE u \in updatedUser : TRUE)]
    /\ lastDone' = s
    /\ UNCHANGED <<users, autoInc, now, skew, gone, touched, form, list, detail>>

\* router.delete('/:id'), up to its first await
DeleteSelect(s) ==
    /\ req[s].pc = "handler" /\ req[s].kind = "DELETE"
    /\ LET id == Number(req[s].param)
       IN  IF isNaN(id)
           THEN /\ req' = [req EXCEPT ![s] = Respond(@, 400, InvalidId)]
                /\ lastDone' = s
           ELSE IF Missing(SelectById(id))
           THEN /\ req' = [req EXCEPT ![s] =
                             Respond([@ EXCEPT !.calls = @ + 1], 404, NotFound)]
                /\ lastDone' = s
           ELSE /\ req' = [req EXCEPT ![s].pc = "delete", ![s].calls = @ + 1]
                /\ UNCHANGED lastDone
    /\ UNCHANGED <<users, autoInc, now, skew, gone, touched, form, list, detail>>

\* DELETE FROM users WHERE id = id: what is left of the table
RowsAfterDelete_Soft(id) == users

RowsAfterDelete(id) == users \ SelectById(id)

\* router.delete('/:id'): the DELETE statement, then 204
DeleteRow(s) ==
    /\ req[s].pc = "delete"
    /\ LET id == Number(req[s].param)
           found == SelectById(id)
       IN  /\ users' = RowsAfterDelete(id)
           /\ touched' = touched \cup {u.email : u \in found}
           /\ gone' = gone \cup {id}
    /\ req' = [req EXCEPT ![s] =
                 Respond([@ EXCEPT !.calls = @ + 1,
                                   !.wrote = SelectById(Number(req[s].param)) # {}],
                         204, NoBody)]
    /\ lastDone' = s
    /\ UNCHANGED <<autoInc, now, skew, form, list, detail>>

\* the handler of request s is about to issue a statement
AtStatement(r) ==
    \/ r.pc \in {"update", "reread", "delete"}
    \/ r.pc = "handler" /\ (r.kind \in {"LIST", "POST"} \/ ~isNaN(Number(r.param)))

\* the statement the handler of request s awaits is rejected by the driver
\* with `code` and changes nothing; the handler's catch block answers
StorageFails(s, code) ==
    /\ AtStatement(req[s])
    /\ req' = [req EXCEPT ![s] = Caught(@, code)]
    /\ lastDone' = s
    /\ UNCHANGED <<users, autoInc, now, skew, gone, touched, form, list, detail>>

\* a second passes
Tick ==
    /\ now < MaxTime
    /\ now' = now + 1
    /\ UNCHANGED <<users, autoInc, skew, req, lastDone, gone, touched, form, list, detail>>

\* ------------------------------------------------------------ the requests
\* a body supplying every field
FullA == [name |-> NameAl, email |-> EmailA, avatar |-> Url1, role |-> "admin",
          status |-> "inactive"]

\* the same body with some fields left out or replaced
Only(body, keys) == [f \in keys |-> body[f]]

With(body, f, v) == [g \in DOMAIN body \cup {f} |-> IF g = f THEN v ELSE body[g]]

\* other values for every field, for updates
Alt == [name |-> NameABC, email |-> EmailB, avatar |-> Url2, role |-> "user",
        status |-> "active"]

\* one invalid value per field
Bad == [name |-> NameA, email |-> EmailBad, avatar |-> TextBad, role |-> "root",
        status |-> "asleep"]

\* what a body offers for a key that is a column but no field of the schema
ForeignValue == 7

Request(kind, param, raw) == [kind |-> kind, param |-> param, raw |-> raw]

IdParams == {"1", "2", "abc", "-1", "0x1"}

\* the POST bodies of the sequential workload: complete, with optional fields
\* left out, with a required field left out, with one invalid value
SeqPostBodies ==
    {FullA, With(FullA, "email", EmailB),
     Only(FullA, Fields \ {"avatar"}), Only(FullA, Required),
     Only(FullA, Fields \ {"status"}),
     Only(FullA, Fields \ {"name"}), Only(FullA, Fields \ {"email"}),
     With(FullA, "avatar", EmptyText), With(Only(FullA, Required), "role", "root"),
     With(FullA, "id", ForeignValue)}
    \cup {With(FullA, f, Bad[f]) : f \in {"name", "email", "avatar"}}

\* the PUT bodies of the sequential workload: every subset of the fields, and
\* a body with one invalid value among valid ones
SeqPutBodies ==
    {Only(Alt, keys) : keys \in SUBSET Fields}
    \cup {With(Only(Alt, {"name"}), f, Bad[f]) : f \in Fields}
    \cup {With(NoFields, "avatar", EmptyText)}
    \cup {With(Only(Alt, {"name"}), k, ForeignValue) : k \in {"id", "createdAt"}}

SeqRequests ==
    {Request("POST", "", b) : b \in SeqPostBodies}
    \cup {Request("PUT", "1", b) : b \in SeqPutBodies}
    \cup {Request("PUT", p, Only(Alt, {"name"})) : p \in IdParams \ {"1"}}
    \cup {Request(k, p, NoFields) : k \in {"GET", "DELETE"}, p \in IdParams}
    \cup {Request("LIST", "", NoFields)}

\* the requests of the concurrent workload
Requests ==
    {Request("POST", "", b) :
        b \in {FullA, With(Only(FullA, Required), "email", EmailB)}}
    \cup {Request("PUT", "1", b) :
            b \in {Only(Alt, {"email"}), Only(Alt, {"name"}), Only(Bad, {"role"})}}
    \cup {Request(k, "1", NoFields) : k \in {"GET", "DELETE"}}
    \cup {Request("LIST", "", NoFields)}

\* the requests of the workload with failing statements
FailRequests ==
    {Request("POST", "", b) :
        b \in {FullA, With(Only(FullA, Required), "email", EmailB)}}
    \cup {Request("PUT", p, Only(Alt, {"email"})) : p \in {"1", "abc"}}
    \cup {Request("PUT", "1", Only(Bad, {"role"}))}
    \cup {Request(k, p, NoFields) : k \in {"GET", "DELETE"}, p \in {"1", "abc"}}
    \cup {Request("LIST", "", NoFields)}

\* the requests of the clock workload
ClockRequests ==
    {Request("POST", "", FullA), Request("PUT", "1", Only(Alt, {"name"})),
     Request("PUT", "1", NoFields), Request("GET", "1", NoFields),
     Request("DELETE", "1", NoFields), Request("LIST", "", NoFields)}

\* ------------------------------------------------------ the client's form
\* frontend userSchema, one field: the avatar may also be the empty text
ClientFieldOk(f, v) ==
    CASE f = "name" -> Len(v) >= 2
      [] f = "email" -> IsEmail(v)
      [] f = "avatar" -> IsUrl(v) \/ v = EmptyText
      [] f = "role" -> v \in {"admin", "user"}
      [] f = "status" -> v \in {"active", "inactive"}

ClientFieldMessage(f) ==
    CASE f = "name" -> "Nome deve ter pelo menos 2 caracteres"
      [] f = "email" -> "Email invalido"
      [] f = "avatar" -> "URL invalida"
      [] f = "role" -> "Papel deve ser admin ou user"
      [] f = "status" -> "Status deve ser active ou inactive"

ClientIssues(values, partial) ==
    {[path |-> f, message |-> "Required"] :
        f \in IF partial THEN {} ELSE Required \ DOMAIN values}
    \cup
    {[path |-> f, message |-> ClientFieldMessage(f)] :
        f \in {g \in DOMAIN values \cap Fields : ~ClientFieldOk(g, values[g])}}

\* zodResolver(isEditMode ? userSchema.partial() : userSchema)
resolver(values, isEditMode) ==
    [issues |-> ClientIssues(values, isEditMode), data |-> Parsed(values, isEditMode)]

\* String.prototype.replace with a string pattern: the first occurrence only
ReplaceFirst(s, a, b) ==
    IF Positions(s, a) = {} THEN s
    ELSE LET i == CHOOSE k \in Positions(s, a) : \A j \in Positions(s, a) : k <= j
         IN  [s EXCEPT ![i] = b]

\* `https://ui-avatars.com/api/?name=${data.name.replace(" ", '+')}`
DefaultAvatarUrl(name) ==
    <<"https", "://", "ui-avatars.com", "/api/?name=">> \o ReplaceFirst(name, " ", "+")

\* !data.avatar || data.avatar.trim() === ''
AvatarMissing(data) ==
    \/ "avatar" \notin DOMAIN data
    \/ data.avatar = Null
    \/ \A i \in 1..Len(data.avatar) : data.avatar[i] = " "

\* onSubmit: the avatar the request will carry
WithDefaultAvatar_Never(data) == data

WithDefaultAvatar(data) ==
    IF AvatarMissing(data) THEN With(data, "avatar", DefaultAvatarUrl(data.name)) ELSE data

\* what the inputs hold before the user types: the text inputs are empty, the
\* selects show defaultValues
BlankForm ==
    [name |-> EmptyText, email |-> EmptyText, avatar |-> EmptyText, role |-> "user",
     status |-> "active"]

\* the component as mounted: in edit mode it first loads the user
FormStart(isEditMode) ==
    [isEditMode |-> isEditMode, fetching |-> isEditMode, loading |-> isEditMode,
     pc |-> "editing", values |-> BlankForm, errors |-> {}, error |-> "",
     submitLoading |-> FALSE, validated |-> NoFields, data |-> NoFields,
     sent |-> NoFields, submits |-> 0, fails |-> 0]

\* what the user may put into a field
FormChoices ==
    [name |-> {NameA, NameABC}, email |-> {EmailA, EmailBad},
     avatar |-> {EmptyText, Url1, <<" ">>}, role |-> {"admin"}, status |-> {"inactive"}]

\* the rows an edit form may load: one with an avatar, one whose avatar is NULL
LoadableRows ==
    {[id |-> 1, name |-> NameAl, email |-> EmailB, avatar |-> a, role |-> "admin",
      status |-> "active", createdAt |-> 0, updatedAt |-> 0] : a \in {Url2, Null}}

ServerVars == <<users, autoInc, now, skew, req, lastDone, gone, touched>>

\* ------------------------------------------------- client: list and detail
\* cards per page
usersPerPage == 5

\* setError(null)
NoError == ""

\* Array.prototype.filter on the ids of a list of users
RECURSIVE Without(_, _)
Without(us, id) ==
    IF us = <<>> THEN <<>>
    ELSE IF Head(us) = id THEN Without(Tail(us), id)
         ELSE <<Head(us)>> \o Without(Tail(us), id)

\* UserList as mounted: no users yet, loading, page 1, and the effect has
\* called fetchUsers
ListStart ==
    [mounted |-> TRUE, fetching |-> TRUE, loading |-> TRUE, error |-> NoError,
     users |-> <<>>, currentPage |-> 1, deletes |-> <<>>, clicks |-> 0,
     deleted |-> {}, fails |-> 0]

\* UserList while another route is shown
ListGone == [ListStart EXCEPT !.mounted = FALSE, !.fetching = FALSE, !.loading = FALSE]

\* UserDetail as mounted for /users/:id: no user yet, loading, and the effect
\* has called fetchUser
DetailStart(id) ==
    [mounted |-> TRUE, id |-> id, fetching |-> TRUE, loading |-> TRUE,
     error |-> NoError, user |-> 0, deletes |-> 0, clicks |-> 0, fails |-> 0]

\* UserDetail while another route is shown
DetailGone ==
    [DetailStart(0) EXCEPT !.mounted = FALSE, !.fetching = FALSE, !.loading = FALSE]

\* UserForm while another route is shown
FormGone == [FormStart(FALSE) EXCEPT !.pc = "left"]

\* the router shows the page of one route and unmounts the others; what a
\* request of an unmounted page does when it settles is not modelled
Navigate(path, id) ==
    /\ list' = IF path = "/" THEN ListStart ELSE ListGone
    /\ detail' = IF path = "/users/:id" THEN DetailStart(id) ELSE DetailGone
    /\ form' = CASE path = "/users/new" -> FormStart(FALSE)
                 [] path = "/users/edit/:id" -> FormStart(TRUE)
                 [] OTHER -> FormGone

\* the error banner of the form page
FormBanner(f) == f.pc # "left" /\ ~f.loading /\ f.error # NoError

\* fetchUser of the form's effect settles: every key but id, createdAt and
\* updatedAt goes into the form, or the error banner is set
FormFetched(ok) ==
    /\ form.pc # "left" /\ form.fetching
    /\ IF ok
       THEN \E row \in LoadableRows :
               form' = [form EXCEPT !.values = [f \in Fields |-> row[f]],
                                    !.error = "", !.fetching = FALSE,
                                    !.loading = FALSE]
       ELSE form' = [form EXCEPT
                       !.error = "Erro ao carregar dados do usuario. Por favor, tente novamente.",
                       !.fails = @ + 1, !.fetching = FALSE, !.loading = FALSE]
    /\ UNCHANGED <<ServerVars, list, detail>>

\* the user changes one input
FormType(f, v) ==
    /\ ~form.loading /\ form.pc = "editing"
    /\ form.values[f] # v
    /\ form' = [form EXCEPT !.values[f] = v]
    /\ UNCHANGED <<ServerVars, list, detail>>

\* the submit button, enabled unless submitLoading: handleSubmit runs the
\* resolver on the values of the inputs and calls onSubmit only if it accepts
FormSubmit ==
    /\ ~form.loading /\ form.pc = "editing" /\ ~form.submitLoading
    /\ form.submits < MaxSubmits
    /\ LET r == resolver(form.values, form.isEditMode)
       IN  form' = [form EXCEPT !.submits = @ + 1,
                                !.validated = form.values,
                                !.errors = r.issues,
                                !.data = IF r.issues = {} THEN r.data ELSE NoFields,
                                !.pc = IF r.issues = {} THEN "resolved" ELSE "editing"]
    /\ UNCHANGED <<ServerVars, list, detail>>

\* onSubmit(data) up to its await: the flags, the default avatar, the request
FormOnSubmit ==
    /\ form.pc = "resolved"
    /\ form' = [form EXCEPT !.submitLoading = TRUE, !.error = "",
                            !.sent = WithDefaultAvatar(form.data),
                            !.pc = "sending"]
    /\ UNCHANGED <<ServerVars, list, detail>>

\* the request settles: on success the form is reset (create) and the list is
\* shown; on failure the banner is set; submitLoading ends either way
FormSettled(status) ==
    /\ form.pc = "sending"
    /\ IF status \in {200, 201}
       THEN Navigate("/", 0)
       ELSE /\ form' = [form EXCEPT
                          !.pc = "editing", !.submitLoading = FALSE, !.fails = @ + 1,
                          !.error = IF status = 409
                                    THEN "Este email ja esta em uso. Por favor, use outro email."
                                    ELSE "Erro ao salvar usuario. Por favor, tente novamente."]
            /\ UNCHANGED <<list, detail>>
    /\ UNCHANGED ServerVars

\* the Cancelar button
FormCancel ==
    /\ ~form.loading /\ form.pc = "editing"
    /\ Navigate("/", 0)
    /\ UNCHANGED ServerVars

\* users.slice(indexOfFirstUser, indexOfLastUser): the cards of the current page
currentUsers(l) ==
    LET indexOfLastUser == l.currentPage * usersPerPage
        indexOfFirstUser == indexOfLastUser - usersPerPage
        last == IF indexOfLastUser < Len(l.users) THEN indexOfLastUser ELSE Len(l.users)
    IN  SubSeq(l.users, indexOfFirstUser + 1, last)

\* Math.ceil(users.length / usersPerPage)
totalPages(l) == (Len(l.users) + usersPerPage - 1) \div usersPerPage

\* the list page shows its cards: it is mounted and past the loading screen
ListShown == list.mounted /\ ~list.loading

\* the error banner of the list page
ListBanner(l) == l.mounted /\ ~l.loading /\ l.error # NoError

\* the lists GET /api/users may return: users 1..n
FetchedLists == {[i \in 1..n |-> i] : n \in 0..MaxListUsers}

\* fetchUsers settles, without its finally block
ListFetched_NoFinally(ok, data) ==
    /\ list.mounted /\ list.fetching
    /\ list' = IF ok
               THEN [list EXCEPT !.users = data, !.error = NoError,
                                 !.fetching = FALSE, !.loading = FALSE]
               ELSE [list EXCEPT
                       !.error = "Erro ao carregar usuarios. Por favor, tente novamente.",
                       !.fails = @ + 1, !.fetching = FALSE]
    /\ UNCHANGED <<ServerVars, form, detail>>

\* fetchUsers settles: the users are stored, or the error is set; loading
\* ends either way
ListFetched(ok, data) ==
    /\ list.mounted /\ list.fetching
    /\ list' = IF ok
               THEN [list EXCEPT !.users = data, !.error = NoError,
                                 !.fetching = FALSE, !.loading = FALSE]
               ELSE [list EXCEPT
                       !.error = "Erro ao carregar usuarios. Por favor, tente novamente.",
                       !.fails = @ + 1, !.fetching = FALSE, !.loading = FALSE]
    /\ UNCHANGED <<ServerVars, form, detail>>

\* the Excluir button of a card, confirmed: handleDeleteUser of this render
\* sends the DELETE; `seen` is the `users` its closure holds
ListDelete(id) ==
    /\ ListShown /\ id \in Range(currentUsers(list))
    /\ list.clicks < MaxDeletes
    /\ list' = [list EXCEPT !.deletes = Append(@, [id |-> id, seen |-> list.users]),
                            !.clicks = @ + 1]
    /\ UNCHANGED <<ServerVars, form, detail>>

\* a DELETE of the list settles, a failure leaving no trace
ListDeleteSettled_Silent(i, ok) ==
    /\ list.mounted /\ i \in DOMAIN list.deletes
    /\ LET d == list.deletes[i]
           rest == SubSeq(list.deletes, 1, i - 1)
                   \o SubSeq(list.deletes, i + 1, Len(list.deletes))
       IN  list' = IF ok
                   THEN [list EXCEPT !.users = Without(d.seen, d.id),
                                     !.deleted = @ \cup {d.id}, !.deletes = rest]
                   ELSE [list EXCEPT !.fails = @ + 1, !.deletes = rest]
    /\ UNCHANGED <<ServerVars, form, detail>>

\* a DELETE of the list settles: on success setUsers(users.filter(...)) with
\* the users of the closure, on failure the error is set
ListDeleteSettled(i, ok) ==
    /\ list.mounted /\ i \in DOMAIN list.deletes
    /\ LET d == list.deletes[i]
           rest == SubSeq(list.deletes, 1, i - 1)
                   \o SubSeq(list.deletes, i + 1, Len(list.deletes))
       IN  list' = IF ok
                   THEN [list EXCEPT !.users = Without(d.seen, d.id),
                                     !.deleted = @ \cup {d.id}, !.deletes = rest]
                   ELSE [list EXCEPT
                           !.error = "Erro ao excluir usuario. Por favor, tente novamente.",
                           !.fails = @ + 1, !.deletes = rest]
    /\ UNCHANGED <<ServerVars, form, detail>>

\* the pages the buttons of Pagination lead to: Anterior unless on page 1,
\* Proxima unless on the last page, and one button per page (all of them are
\* shown up to five pages)
PageButtons(currentPage, total) ==
    (IF currentPage = 1 THEN {} ELSE {currentPage - 1})
    \cup (IF currentPage = total THEN {} ELSE {currentPage + 1})
    \cup 1..total

\* handlePageChange, from Pagination, which is rendered only for more users
\* than one page holds
ListPage(pageNumber) ==
    /\ ListShown /\ Len(list.users) > usersPerPage
    /\ pageNumber \in PageButtons(list.currentPage, totalPages(list))
    /\ pageNumber # list.currentPage
    /\ list' = [list EXCEPT !.currentPage = pageNumber]
    /\ UNCHANGED <<ServerVars, form, detail>>

\* the detail page shows the user and its buttons
DetailShown ==
    detail.mounted /\ ~detail.loading /\ detail.error = NoError /\ detail.user # 0

\* the error page of the detail page
DetailBanner(d) == d.mounted /\ ~d.loading /\ d.error # NoError

\* fetchUser of the detail page settles: the user is stored, or the error is
\* set; loading ends either way
DetailFetched(ok) ==
    /\ detail.mounted /\ detail.fetching
    /\ detail' = IF ok
                 THEN [detail EXCEPT !.user = detail.id, !.error = NoError,
                                     !.fetching = FALSE, !.loading = FALSE]
                 ELSE [detail EXCEPT
                         !.error = "Erro ao carregar dados do usuario. Por favor, tente novamente.",
                         !.fails = @ + 1, !.fetching = FALSE, !.loading = FALSE]
    /\ UNCHANGED <<ServerVars, form, list>>

\* the Excluir button of the detail page, confirmed: handleDelete sends the
\* DELETE
DetailDelete ==
    /\ DetailShown
    /\ detail.clicks < MaxDeletes
    /\ detail' = [detail EXCEPT !.deletes = @ + 1, !.clicks = @ + 1]
    /\ UNCHANGED <<ServerVars, form, list>>

\* a DELETE of the detail page settles: on success the list is shown, on
\* failure the error is set
DetailDeleteSettled(ok) ==
    /\ detail.mounted /\ detail.deletes > 0
    /\ IF ok
       THEN Navigate("/", 0)
       ELSE /\ detail' = [detail EXCEPT
                            !.error = "Erro ao excluir usuario. Por favor, tente novamente.",
                            !.fails = @ + 1, !.deletes = @ - 1]
            /\ UNCHANGED <<form, list>>
    /\ UNCHANGED ServerVars

\* the links of the navigation bar, from a page of another route (the form
\* is not sent from one of its routes to the other)
LayoutLink(path) ==
    /\ \/ path = "/" /\ ~list.mounted
       \/ path = "/users/new" /\ (list.mounted \/ detail.mounted)
    /\ Navigate(path, 0)
    /\ UNCHANGED ServerVars

\* the Detalhes and Editar links of a card
CardLink(path, id) ==
    /\ ListShown /\ id \in Range(currentUsers(list))
    /\ path \in {"/users/:id", "/users/edit/:id"}
    /\ Navigate(path, id)
    /\ UNCHANGED ServerVars

\* the Editar link of the detail page
DetailLink ==
    /\ DetailShown
    /\ Navigate("/users/edit/:id", detail.id)
    /\ UNCHANGED ServerVars

\* ---------------------------------------------------------- specifications
\* requests received so far
Admitted == Cardinality({s \in Slots : req[s].pc # "idle"})

\* the table as backend/criar_bd.sql creates it: empty
InitWith(skews) ==
    /\ users = {}
    /\ autoInc = 1
    /\ now = 0
    /\ skew \in skews
    /\ req = [s \in Slots |-> Idle]
    /\ lastDone = 0
    /\ gone = {}
    /\ touched = {}
    /\ form = FormStart(FALSE)
    /\ list = ListGone
    /\ detail = DetailGone

Init == InitWith({0})

Handle(s) ==
    \/ GetAll(s)
    \/ GetById(s)
    \/ PostInsert(s)
    \/ PutSelect(s)
    \/ PutUpdate(s)
    \/ PutReread(s)
    \/ DeleteSelect(s)
    \/ DeleteRow(s)

\* requests are handled concurrently: every await is a point where another
\* handler may run
Next ==
    \/ /\ Admitted < MaxReqs
       /\ \E s \in Slots, r \in Requests : Receive(s, r.kind, r.param, r.raw)
    \/ \E s \in Slots : Handle(s)

Spec == Init /\ [][Next]_vars

InFlight == {s \in Slots : req[s].pc \notin {"idle", "done"}}

\* one client that sends a request only after the response to the one before
NextSeq ==
    \/ /\ Admitted < MaxSeqReqs /\ InFlight = {}
       /\ \E s \in Slots, r \in SeqRequests : Receive(s, r.kind, r.param, r.raw)
    \/ \E s \in Slots : Handle(s)

SpecSeq == Init /\ [][NextSeq]_vars

\* the same client while time passes, the application server and the database
\* each reading its own clock
InitClock == InitWith((0 - MaxSkew)..MaxSkew)

NextClock ==
    \/ /\ Admitted < MaxClockReqs /\ InFlight = {}
       /\ \E s \in Slots, r \in ClockRequests : Receive(s, r.kind, r.param, r.raw)
    \/ \E s \in Slots : Handle(s)
    \/ Tick

SpecClock == InitClock /\ [][NextClock]_vars

\* one request at a time, against a database whose statements may fail
NextFail ==
    \/ /\ Admitted < MaxFailReqs /\ InFlight = {}
       /\ \E s \in Slots : \E r \in FailRequests : Receive(s, r.kind, r.param, r.raw)
    \/ \E s \in Slots : Handle(s)
    \/ \E s \in Slots : \E code \in StorageErrors : StorageFails(s, code)

SpecFail == Init /\ [][NextFail]_vars

\* the user form alone, in create mode or in edit mode, against an API that
\* may answer anything
InitForm ==
    /\ users = {}
    /\ autoInc = 1
    /\ now = 0
    /\ skew = 0
    /\ req = [s \in Slots |-> Idle]
    /\ lastDone = 0
    /\ gone = {}
    /\ touched = {}
    /\ form \in {FormStart(m) : m \in BOOLEAN}
    /\ list = ListGone
    /\ detail = DetailGone

NextForm ==
    \/ \E ok \in BOOLEAN : FormFetched(ok)
    \/ \E f \in Fields : \E v \in FormChoices[f] : FormType(f, v)
    \/ FormSubmit
    \/ FormOnSubmit
    \/ \E status \in {200, 201, 400, 409, 500} : FormSettled(status)
    \/ FormCancel

SpecForm == InitForm /\ [][NextForm]_vars

\* the client alone, from the list page, against an API that may answer
\* anything
InitClient ==
    /\ users = {}
    /\ autoInc = 1
    /\ now = 0
    /\ skew = 0
    /\ req = [s \in Slots |-> Idle]
    /\ lastDone = 0
    /\ gone = {}
    /\ touched = {}
    /\ form = FormGone
    /\ list = ListStart
    /\ detail = DetailGone

\* what the user types in this specification
ClientTyping == [name |-> {NameABC}, email |-> {EmailA}, avatar |-> {EmptyText}]

Settles ==
    \/ \E ok \in BOOLEAN : \E data \in FetchedLists : ListFetched(ok, data)
    \/ \E ok \in BOOLEAN : DetailFetched(ok)
    \/ \E ok \in BOOLEAN : FormFetched(ok)
    \/ FormOnSubmit
    \/ \E status \in {200, 201, 400, 409, 500} : FormSettled(status)

NextClient ==
    \/ Settles
    \/ \E id \in 1..MaxListUsers : ListDelete(id)
    \/ \E i \in 1..MaxDeletes : \E ok \in BOOLEAN : ListDeleteSettled(i, ok)
    \/ \E pageNumber \in 1..MaxListUsers : ListPage(pageNumber)
    \/ DetailDelete
    \/ \E ok \in BOOLEAN : DetailDeleteSettled(ok)
    \/ \E path \in {"/", "/users/new"} : LayoutLink(path)
    \/ \E path \in {"/users/:id", "/users/edit/:id"} :
          \E id \in 1..MaxListUsers : CardLink(path, id)
    \/ DetailLink
    \/ \E f \in DOMAIN ClientTyping : \E v \in ClientTyping[f] : FormType(f, v)
    \/ FormSubmit
    \/ FormCancel

SpecClient == InitClient /\ [][NextClient]_vars

\* every request the client sends is answered or fails: its promise settles
SpecClientLive == SpecClient /\ WF_vars(Settles)

\* ----------------------------------------------------------------- claims
Done(s) == req[s].pc = "done"

\* the body misses a key the full schema requires
MissesRequired(r) == r.kind = "POST" /\ Required \ DOMAIN r.raw # {}

\* the body supplies a value its field's rule rejects
HasInvalidValue(r) ==
    r.kind \in {"POST", "PUT"} /\ \E f \in DOMAIN r.raw \cap Fields : ~FieldOk(f, r.raw[f])

\* the fields a 400 has to name
Offending(r) ==
    (IF r.kind = "POST" THEN Required \ DOMAIN r.raw ELSE {})
    \cup {f \in DOMAIN r.raw \cap Fields : ~FieldOk(f, r.raw[f])}

\* a body the schema of its operation accepts
ValidBody(r) == r.kind \in {"POST", "PUT"} /\ Offending(r) = {}

\* C1: a POST that lacks name or email, and a POST or PUT with an invalid value
\* for a supplied field, is answered 400 with one message per offending field,
\* has issued no storage statement, and the step that answers it leaves the
\* table as it was.
C1_RejectedBeforeStorage ==
    /\ [](\A s \in Slots :
            (req[s].pc # "idle" /\ (MissesRequired(req[s]) \/ HasInvalidValue(req[s])))
            => /\ Done(s)
               /\ req[s].status = 400
               /\ DOMAIN req[s].rbody = {"message", "errors"}
               /\ {e.path : e \in req[s].rbody.errors} = Offending(req[s])
               /\ \A e \in req[s].rbody.errors : e.message # ""
               /\ req[s].calls = 0)
    /\ [][\A s \in Slots :
            (req[s].pc = "idle" /\ Done(s)' /\ req'[s].status = 400) => users' = users]_vars

\* C1 happens: a PUT with an invalid role among valid fields was answered 400
\* while the table holds the row it names
C1_Witness ==
    \E s \in Slots :
        /\ Done(s) /\ req[s].kind = "PUT" /\ req[s].status = 400
        /\ "role" \in DOMAIN req[s].raw /\ "name" \in DOMAIN req[s].raw
        /\ SelectById(Number(req[s].param)) # {}

\* q is the request made right after the response to p
RightAfter(p, q) == req[q].pc # "idle" /\ req[q].prev = p

\* two valid POSTs that carry the same email
SameEmailPosts(p, q) ==
    /\ p # q
    /\ req[p].kind = "POST" /\ req[q].kind = "POST"
    /\ ValidBody(req[p]) /\ ValidBody(req[q])
    /\ req[p].raw.email = req[q].raw.email

RowsWithEmail(e) == {u \in users : u.email = e}

\* no request has been received since q
Latest(q) == \A s \in Slots : s > q => req[s].pc = "idle"

\* C2: of two POSTs with the same email, not yet in the table, made one after
\* the other, the first is answered 201 and the second 409, and until another
\* request is received the table holds exactly one row with that email.
C2_SecondCreateConflicts ==
    \A p, q \in Slots :
        (SameEmailPosts(p, q) /\ Done(p) /\ Done(q) /\ RightAfter(p, q) /\ req[p].fresh)
        => /\ req[p].status = 201
           /\ req[q].status = 409
           /\ Latest(q) => Cardinality(RowsWithEmail(req[q].raw.email)) = 1

C2_Witness ==
    \E p, q \in Slots :
        /\ SameEmailPosts(p, q) /\ Done(p) /\ Done(q) /\ RightAfter(p, q) /\ req[p].fresh
        /\ req[q].status = 409
        /\ req[p].raw # req[q].raw

UniqueEmails == \A u, v \in users : u.email = v.email => u = v

\* neither request was answered before the other arrived
Concurrent(p, q) == p \notin req[q].before /\ q \notin req[p].before

\* no request but p and q is a POST with the email of p
NoThirdPost(p, q) ==
    \A r \in Slots \ {p, q} :
        ~(req[r].kind = "POST" /\ "email" \in DOMAIN req[r].raw
          /\ req[r].raw.email = req[p].raw.email)

\* C3 as stated: no two rows share an email, and of two concurrent POSTs with
\* the same email (free when they arrived, carried by no third POST) exactly one
\* is answered 201 and the other 409, whatever PUTs run beside them.
C3_ExactlyOneCreated ==
    /\ UniqueEmails
    /\ \A p, q \in Slots :
          (SameEmailPosts(p, q) /\ Done(p) /\ Done(q) /\ Concurrent(p, q)
              /\ req[p].fresh /\ req[q].fresh /\ NoThirdPost(p, q))
          => {req[p].status, req[q].status} = {201, 409}

\* C3, amended: no two rows share an email; every valid POST is answered 201 or
\* 409; two POSTs with the same email are both answered 201 only if a PUT or a
\* DELETE moved that email in between; and when no PUT or DELETE moved it,
\* exactly one of two such concurrent POSTs is answered 201 and the other 409.
C3_AtMostOneCreated ==
    /\ UniqueEmails
    /\ \A p \in Slots :
          (req[p].kind = "POST" /\ ValidBody(req[p]) /\ Done(p))
          => req[p].status \in {201, 409}
    /\ \A p, q \in Slots :
          (SameEmailPosts(p, q) /\ Done(p) /\ Done(q)
              /\ req[p].status = 201 /\ req[q].status = 201)
          => req[p].raw.email \in touched
    /\ \A p, q \in Slots :
          (SameEmailPosts(p, q) /\ Done(p) /\ Done(q) /\ Concurrent(p, q)
              /\ req[p].fresh /\ req[q].fresh /\ NoThirdPost(p, q)
              /\ req[p].raw.email \notin touched)
          => {req[p].status, req[q].status} = {201, 409}

C3_Witness ==
    \E p, q \in Slots :
        /\ SameEmailPosts(p, q) /\ Done(p) /\ Done(q) /\ Concurrent(p, q)
        /\ req[p].fresh /\ req[q].fresh
        /\ req[p].status = 201 /\ req[q].status = 409
        /\ \E r \in Slots : req[r].kind = "PUT" /\ Done(r) /\ Concurrent(p, r)

RowKeys == {"id", "name", "email", "avatar", "role", "status", "createdAt", "updatedAt"}

\* C4: the body of a 201 is the created row: id, name, email, avatar, role,
\* status, createdAt and updatedAt, as stored.
C4_CreatedUserReturned ==
    \A s \in Slots :
        (Done(s) /\ req[s].kind = "POST" /\ req[s].status = 201)
        => /\ DOMAIN req[s].rbody = RowKeys
           /\ Latest(s) => req[s].rbody \in users

\* the row a PUT is about, if the table holds it
TargetRows(s) == SelectById(Number(req[s].param))

\* request s runs its UPDATE in this step and the statement succeeds
Updates(s) == req[s].pc = "update" /\ req'[s].pc = "reread"

\* C5: the UPDATE of a PUT gives every supplied field the supplied value and
\* leaves every other field of that row, and every other row, as it was; role
\* and status are not reset to their defaults.
C5_PartialUpdateFrame ==
    [][\A s \in Slots :
          Updates(s) =>
            /\ \A u \in TargetRows(s) :
                  \E v \in users' :
                      /\ v.id = u.id
                      /\ \A f \in Fields :
                            v[f] = IF f \in DOMAIN req[s].raw THEN req[s].raw[f] ELSE u[f]
            /\ \A u \in users \ TargetRows(s) : u \in users']_vars

\* C5 happens: a PUT that supplied the name alone was answered 200 with the new
\* name, and the row still has the role, status and avatar it was created with
C5_Witness ==
    \E s \in Slots :
        /\ Done(s) /\ req[s].kind = "PUT" /\ req[s].status = 200
        /\ DOMAIN req[s].raw = {"name"}
        /\ DOMAIN req[s].rbody = RowKeys
        /\ req[s].rbody.name = NameABC
        /\ req[s].rbody.role = "admin" /\ req[s].rbody.status = "inactive"
        /\ req[s].rbody.avatar = Url1

\* C6 as stated: every UPDATE of a PUT leaves updatedAt strictly greater than
\* it was.
C6_UpdatedAtStrictlyIncreases ==
    [][\A s \in Slots :
          Updates(s) =>
            \A u \in TargetRows(s) :
                \E v \in users' : v.id = u.id /\ v.updatedAt > u.updatedAt]_vars

\* C6, amended: every UPDATE of a PUT sets updatedAt to the application
\* server's time, in seconds; the new value is greater than the old one exactly
\* when that clock reads later than the old value, so two updates within one
\* second store the same updatedAt.
C6_UpdatedAtIsAppClock ==
    [][\A s \in Slots :
          Updates(s) =>
            \A u \in TargetRows(s) :
                \E v \in users' :
                    /\ v.id = u.id
                    /\ v.updatedAt = now + skew
                    /\ v.updatedAt > u.updatedAt <=> now + skew > u.updatedAt]_vars

\* C6 happens: two PUTs for one row were answered 200 with the same updatedAt
C6_Witness ==
    \E p, q \in Slots :
        /\ p # q /\ Done(p) /\ Done(q)
        /\ req[p].kind = "PUT" /\ req[q].kind = "PUT"
        /\ req[p].status = 200 /\ req[q].status = 200
        /\ RightAfter(p, q)
        /\ DOMAIN req[p].rbody = RowKeys /\ DOMAIN req[q].rbody = RowKeys
        /\ req[p].rbody.updatedAt = req[q].rbody.updatedAt

\* g is a GET for the id that the 201 of POST p returned
ReadsBack(p, g) ==
    /\ req[p].kind = "POST" /\ Done(p) /\ req[p].status = 201
    /\ req[g].kind = "GET" /\ Done(g)
    /\ Number(req[g].param) = req[p].rbody.id
    /\ RightAfter(p, g)

\* C7: a GET for the id a POST returned, made right after it, is answered 200
\* with a row that equals the POST body on every field the client supplied and
\* has id, createdAt and updatedAt filled in.
C7_CreateThenGetRoundTrip ==
    \A p, g \in Slots :
        ReadsBack(p, g)
        => /\ req[g].status = 200
           /\ DOMAIN req[g].rbody = RowKeys
           /\ \A f \in DOMAIN req[p].raw \cap Fields : req[g].rbody[f] = req[p].raw[f]
           /\ req[g].rbody.id = req[p].rbody.id
           /\ req[g].rbody.createdAt \in Int /\ req[g].rbody.updatedAt \in Int

C7_Witness ==
    \E p, g \in Slots :
        /\ ReadsBack(p, g) /\ req[g].status = 200
        /\ DOMAIN req[p].raw = Fields

\* C8 as stated: a GET, PUT or DELETE that arrives after a DELETE for its id
\* was answered 204 is answered 404.
C8_NotFoundAfterDelete ==
    \A s \in Slots :
        (Done(s) /\ req[s].late /\ req[s].kind \in {"GET", "PUT", "DELETE"})
        => req[s].status = 404

\* C8, amended: no row has an id for which a DELETE was answered 204; a GET, a
\* DELETE or a PUT with a valid body that arrives after that 204 is answered
\* 404, and a PUT with an invalid body is answered 400.
C8_NotFoundAfterDeleteValidBody ==
    /\ \A id \in gone : SelectById(id) = {}
    /\ \A s \in Slots :
          (Done(s) /\ req[s].late /\ req[s].kind \in {"GET", "PUT", "DELETE"})
          => req[s].status = IF req[s].kind = "PUT" /\ ~ValidBody(req[s]) THEN 400 ELSE 404

C8_Witness ==
    \E s \in Slots :
        /\ Done(s) /\ req[s].late /\ req[s].kind = "DELETE" /\ req[s].status = 404

\* every value of the body but the avatar is acceptable
ValidButAvatar(r) ==
    /\ r.kind = "POST"
    /\ Required \subseteq DOMAIN r.raw
    /\ \A f \in (DOMAIN r.raw \cap Fields) \ {"avatar"} : FieldOk(f, r.raw[f])

\* C9: a POST whose avatar is absent or the empty text, and whose email is
\* free, is answered 201, and the row is stored with that empty avatar.
C9_EmptyAvatarStored ==
    \A s \in Slots :
        (Done(s) /\ ValidButAvatar(req[s]) /\ req[s].fresh /\ Latest(s)
            /\ ("avatar" \notin DOMAIN req[s].raw \/ req[s].raw.avatar = EmptyText))
        => /\ req[s].status = 201
           /\ \E u \in users :
                 /\ u.id = req[s].rbody.id
                 /\ u.avatar = IF "avatar" \in DOMAIN req[s].raw THEN EmptyText ELSE Null

\* the form has been accepted by the resolver and its request is on the way
Sending == form.pc = "sending"

\* C10 as stated: when the avatar input is empty at submission, the default
\* avatar URL is put in before the client validation runs, so the value the
\* resolver validates and the value sent are both that URL, never the empty
\* avatar.
C10_DefaultAvatarBeforeValidation ==
    Sending => /\ form.validated.avatar # EmptyText
               /\ form.sent.avatar = form.validated.avatar

\* C10 as the form behaves: the resolver validates the inputs as entered, the
\* empty avatar included; onSubmit then puts the default avatar URL, built
\* from the name with its first space turned into "+", into the data it
\* sends, so the value sent is never the empty avatar, and a non-empty avatar
\* is sent as validated.
C10_DefaultAvatarAfterValidation ==
    Sending => /\ form.errors = {}
               /\ form.sent.avatar \notin {EmptyText, Null}
               /\ IF form.validated.avatar = EmptyText
                  THEN form.sent.avatar =
                         <<"https", "://", "ui-avatars.com", "/api/?name=">>
                            \o ReplaceFirst(form.validated.name, " ", "+")
                  ELSE form.sent.avatar = form.validated.avatar
               /\ \A f \in Fields \ {"avatar"} : form.sent[f] = form.validated[f]

C10_Witness ==
    /\ Sending
    /\ form.validated.avatar = EmptyText
    /\ form.validated.name = NameABC
    /\ form.sent.avatar =
         <<"https", "://", "ui-avatars.com", "/api/?name=", "A", "+", "B", " ", "C">>

\* a PUT past validation, or a DELETE, whose id is well formed
Mutation(r) == r.kind \in {"PUT", "DELETE"} /\ ~isNaN(Number(r.param))

\* C11: a PUT with a valid body or a DELETE whose well-formed id has no row
\* when its handler looks is answered 404 in that step, after the one SELECT
\* and with the table as it was; and a PUT or DELETE answered 404 has issued
\* no statement but that SELECT.
C11_ExistenceCheckFirst ==
    /\ [](\A s \in Slots :
            (Done(s) /\ Mutation(req[s]) /\ req[s].status = 404) => req[s].calls = 1)
    /\ [][\A s \in Slots :
            (/\ req[s].pc = "handler" /\ Mutation(req[s])
             /\ SelectById(Number(req[s].param)) = {}
             /\ req'[s] # req[s])
            => /\ req'[s].pc = "done" /\ req'[s].status = 404
               /\ req'[s].rbody = NotFound
               /\ req'[s].calls = 1
               /\ users' = users]_vars

C11_Witness ==
    /\ users # {}
    /\ \E s, t \in Slots :
          /\ Done(s) /\ req[s].kind = "PUT" /\ req[s].status = 404
          /\ req[s].raw # NoFields /\ req[s].calls = 1
          /\ Done(t) /\ req[t].kind = "POST" /\ req[t].status = 201

\* an id segment that is no number
BadId(r) == r.kind \in {"GET", "PUT", "DELETE"} /\ isNaN(Number(r.param))

\* C12: a statement of POST or PUT that fails on the unique index is answered
\* 409; a statement of any handler that fails otherwise is answered 500 with
\* the one fixed message; and the status tells the four outcomes apart: 400
\* only for a rejected body or id, 404 only for a missing row, 409 only for a
\* duplicate key, 500 only for another storage failure.
C12_FailureStatuses ==
    \A s \in Slots :
        Done(s) =>
           /\ req[s].err = "ER_DUP_ENTRY"
                 => /\ req[s].kind \in {"POST", "PUT"}
                    /\ req[s].status = 409 /\ req[s].rbody = Conflict
           /\ req[s].err \in StorageErrors
                 => /\ req[s].status = 500
                    /\ req[s].rbody = [message |-> "Erro interno do servidor"]
           /\ req[s].status = 500 => req[s].err \in StorageErrors
           /\ req[s].status = 409 => req[s].err = "ER_DUP_ENTRY"
           /\ req[s].status = 404 => req[s].err = "" /\ req[s].rbody = NotFound
           /\ req[s].status = 400
                 => /\ req[s].err = "" /\ req[s].calls = 0
                    /\ HasInvalidValue(req[s]) \/ MissesRequired(req[s]) \/ BadId(req[s])

C12_Witness ==
    \E s, t \in Slots :
        /\ Done(s) /\ req[s].kind = "POST" /\ req[s].status = 409
        /\ Done(t) /\ req[t].kind = "POST" /\ req[t].status = 500
        /\ req[t].err = "ER_LOCK_DEADLOCK"

\* C13: a POST, PUT or DELETE answered 400, 404, 409 or 500 has changed no
\* row of the table.
C13_FailureLeavesTable ==
    \A s \in Slots :
        (Done(s) /\ req[s].kind \in {"POST", "PUT", "DELETE"}
            /\ req[s].status \in {400, 404, 409, 500})
        => ~req[s].wrote

\* an id segment in the format of an id: a decimal integer
ValidId(param) == \E i \in 0..9 : ToString(i) = param

\* C14: a GET, a PUT with a valid body or a DELETE whose id segment is not a
\* valid integer id is answered 400 "invalid id format" and has issued no
\* statement.
C14_InvalidIdRejected ==
    \A s \in Slots :
        (/\ Done(s) /\ req[s].kind \in {"GET", "PUT", "DELETE"}
         /\ req[s].kind = "PUT" => ValidBody(req[s])
         /\ ~ValidId(req[s].param))
        => /\ req[s].status = 400 /\ req[s].rbody = InvalidId
           /\ req[s].calls = 0 /\ ~req[s].wrote

\* the fields among role and status that a POST body leaves out
Omitted(r) == {"role", "status"} \ DOMAIN r.raw

\* C15: a POST with a valid body that leaves out role and/or status has them
\* as "user" and "active" in the payload its handler inserts; with its email
\* free it is answered 201, and the stored row has those values.
C15_DefaultsFromValidation ==
    \A s \in Slots :
        (req[s].kind = "POST" /\ ValidBody(req[s]) /\ Omitted(req[s]) # {})
        => /\ req[s].pc \in {"handler", "done"}
           /\ {"role", "status"} \subseteq DOMAIN req[s].body
           /\ "role" \in Omitted(req[s]) => req[s].body.role = "user"
           /\ "status" \in Omitted(req[s]) => req[s].body.status = "active"
           /\ \A f \in DOMAIN req[s].raw : req[s].body[f] = req[s].raw[f]
           /\ (Done(s) /\ req[s].fresh) => req[s].status = 201
           /\ (Done(s) /\ req[s].fresh /\ Latest(s))
                 => \E u \in users :
                       /\ u.id = req[s].rbody.id
                       /\ "role" \in Omitted(req[s]) => u.role = "user"
                       /\ "status" \in Omitted(req[s]) => u.status = "active"
                       /\ \A f \in DOMAIN req[s].raw : u[f] = req[s].raw[f]

C15_Witness ==
    \E s \in Slots :
        /\ Done(s) /\ req[s].kind = "POST" /\ req[s].status = 201
        /\ Omitted(req[s]) = {"status"} /\ req[s].raw.role = "admin"
        /\ \E u \in users :
              u.id = req[s].rbody.id /\ u.role = "admin" /\ u.status = "active"

\* the id and createdAt of every row
Identities(rows) == {<<u.id, u.createdAt>> : u \in rows}

\* C16: validation drops the keys id and createdAt from a body, so the id of
\* a created row is the one the table assigns, and a step changes the id and
\* createdAt of the rows only by adding the row of a POST or by removing the
\* row of a DELETE.
C16_IdAndCreatedAtFixed ==
    /\ [](\A s \in Slots :
            /\ DOMAIN req[s].body \subseteq Fields
            /\ (Done(s) /\ req[s].kind = "POST" /\ req[s].status = 201
                  /\ "id" \in DOMAIN req[s].raw)
               => req[s].rbody.id # req[s].raw.id)
    /\ [][\A s \in Slots :
            req'[s] # req[s]
            => CASE req[s].pc = "handler" /\ req[s].kind = "POST"
                      -> Identities(users) \subseteq Identities(users')
                 [] req[s].pc = "delete"
                      -> /\ Identities(users') \subseteq Identities(users)
                         /\ \A u \in users \ users' : u.id = Number(req[s].param)
                 [] OTHER -> Identities(users') = Identities(users)]_vars

C16_Witness ==
    \E s \in Slots :
        /\ Done(s) /\ req[s].kind = "PUT" /\ req[s].status = 200
        /\ "createdAt" \in DOMAIN req[s].raw
        /\ req[s].rbody.name = req[s].raw.name
        /\ req[s].rbody.createdAt # req[s].raw.createdAt

\* the ids of the rows
Ids(rows) == {u.id : u \in rows}

\* C17: the id of a row a step adds is the id the 201 reports, and it is the
\* id of no row of the table and of no row that was deleted before.
C17_IdsNeverReused ==
    /\ [](Ids(users) \cap gone = {})
    /\ [][\A s \in Slots :
            (req[s].pc = "handler" /\ req'[s].pc = "done" /\ req'[s].status = 201)
            => /\ Ids(users') \ Ids(users) = {req'[s].rbody.id}
               /\ req'[s].rbody.id \notin Ids(users) \cup gone]_vars

C17_Witness ==
    \E s \in Slots :
        /\ Done(s) /\ req[s].kind = "POST" /\ req[s].status = 201
        /\ gone = {1} /\ users # {}
        /\ req[s].rbody.id = 2 /\ Ids(users) = {2}

\* C18: every row has updatedAt >= createdAt.
C18_UpdatedAtNotBelowCreatedAt ==
    \A u \in users : u.updatedAt >= u.createdAt

\* C19: every row has a name of at least two characters, a role that is admin
\* or user and a status that is active or inactive; and a PUT with an invalid
\* value for a field is answered 400 and changes no row, whatever its other
\* fields.
C19_RowsStayValid ==
    /\ \A u \in users :
          /\ Len(u.name) >= 2
          /\ u.role \in {"admin", "user"}
          /\ u.status \in {"active", "inactive"}
    /\ \A s \in Slots :
          (Done(s) /\ req[s].kind = "PUT" /\ HasInvalidValue(req[s]))
          => req[s].status = 400 /\ ~req[s].wrote /\ req[s].calls = 0

C19_Witness ==
    \E s \in Slots :
        /\ Done(s) /\ req[s].kind = "PUT" /\ req[s].status = 400
        /\ DOMAIN req[s].raw = {"name", "status"}
        /\ Len(req[s].raw.name) >= 2 /\ req[s].raw.status = "asleep"
        /\ \E u \in users : u.id = Number(req[s].param) /\ u.status = "inactive"

\* C20: the record the form's resolver has last been given is accepted by the
\* client's schema exactly if the server's schema of the same variant (full
\* for create, partial for edit) accepts it.
C20_SchemasAgree ==
    form.submits > 0
    => ((form.errors = {}) <=> (Issues(form.validated, form.isEditMode) = {}))

\* the DELETE requests for id that have been answered with status
DeletesAnswered(id, status) ==
    {s \in Slots : /\ Done(s) /\ req[s].kind = "DELETE"
                   /\ Number(req[s].param) = id /\ req[s].status = status}

\* C25: of the DELETE requests for the id of one row, however they interleave,
\* at most one is answered 204, and every other one is answered 404.
C25_OneDeleteSucceeds ==
    \A id \in Ids(users) \cup gone :
        /\ Cardinality(DeletesAnswered(id, 204)) <= 1
        /\ \A s \in Slots :
              (Done(s) /\ req[s].kind = "DELETE" /\ Number(req[s].param) = id)
              => req[s].status \in {204, 404}

\* C26: a PUT answered 200 carries in its body a user row, the one with the
\* id it named, however its steps interleave with other requests.
C26_PutReturnsUpdatedRow ==
    \A s \in Slots :
        (Done(s) /\ req[s].kind = "PUT" /\ req[s].status = 200)
        => /\ req[s].rbody # NoBody
           /\ DOMAIN req[s].rbody = RowKeys
           /\ req[s].rbody.id = Number(req[s].param)

\* C21: no control has two of its requests in flight: not the delete button
\* of one card, not the delete button of the detail page, not the submit
\* button of the form, which is disabled while its request is in flight.
C21_OneRequestPerControl ==
    /\ \A i, j \in DOMAIN list.deletes :
          i # j => list.deletes[i].id # list.deletes[j].id
    /\ detail.deletes <= 1
    /\ Sending => form.submitLoading

\* C22: whenever a request of a page fails (the list's fetch or delete, the
\* detail page's fetch or delete, the form's load or submit), the page then has
\* a non-empty error and renders it.
C22_FailuresShown ==
    [][/\ list'.fails > list.fails => ListBanner(list')
       /\ detail'.fails > detail.fails => DetailBanner(detail')
       /\ form'.fails > form.fails => FormBanner(form')]_vars

\* two deletes of the list page have failed, and its banner is up
C22_Witness == list.fails = 2 /\ list.deletes = <<>> /\ ListBanner(list)

\* C23: whenever the list page shows a non-empty list, its current page is one
\* of 1..totalPages and shows at least one user.
C23_PageWithinRange ==
    (ListShown /\ list.users # <<>>)
    => /\ list.currentPage \in 1..totalPages(list)
       /\ currentUsers(list) # <<>>

\* C24: no user whose DELETE from the list page succeeded is in the displayed
\* list, however the deletes of different users overlap.
C24_DeletedStayDeleted ==
    list.mounted => list.deleted \cap Range(list.users) = {}

\* C27: a loading flag is true only while a request of its page is in flight,
\* it is false once that request has settled, and every page that is loading
\* or submitting eventually is not.
C27_LoadingEnds ==
    /\ [](/\ list.loading => list.fetching
          /\ detail.loading => detail.fetching
          /\ form.loading => form.fetching
          /\ form.submitLoading => Sending)
    /\ [][/\ (list.fetching /\ ~list'.fetching) => ~list'.loading
          /\ (detail.fetching /\ ~detail'.fetching) => ~detail'.loading
          /\ (form.fetching /\ ~form'.fetching) => ~form'.loading
          /\ (Sending /\ form'.pc # "sending") => ~form'.submitLoading]_vars
    /\ list.loading ~> ~list.loading
    /\ detail.loading ~> ~detail.loading
    /\ form.loading ~> ~form.loading
    /\ form.submitLoading ~> ~form.submitLoading

\* an edit form that loaded its user, sent it and was refused: no flag is up
C27_Witness ==
    /\ form.isEditMode /\ form.pc = "editing"
    /\ form.submits > 0 /\ form.fails > 0
    /\ ~form.loading /\ ~form.submitLoading

====
